---- MODULE Spec2Model ----
(***************************************************************************)
(* A model of crash_dashboard.py: one Streamlit script that loads three   *)
(* pre-aggregated crash tables, reads the sidebar filter widgets, and      *)
(* derives the summary metrics and the tables behind every chart.          *)
(*                                                                         *)
(* Tables are sequences of records whose fields carry the column names of  *)
(* the source.  Every column is taken to be complete (no missing values).  *)
(* A float is modelled by the exact rational it approximates, as a record  *)
(* [num, den]; den = 0 stands for NaN (the result of 0/0).  The plotting   *)
(* calls are outside the model: a chart is drawn from its table as is.     *)
(***************************************************************************)
EXTENDS Integers, Sequences, FiniteSets, TLC

\* ------------------------------------------------------------------------
\* State
\* ------------------------------------------------------------------------

VARIABLES
    readable,               \* the files pandas can read
    main_file,              \* the table stored in dashboard_data_main.parquet
    cached,                 \* st.cache_data holds load_data's result
    pc,                     \* where the script run stands
    error,                  \* the message st.error shows
    rendered,               \* the page elements the run has produced
    all_crashes_ts, fatal_serious_ts, main_data,
    year_range, severity_filter, urban_filter, road_filter, light_filter, age_filter,
    filtered_data, total_all_data,
    total_crashes, fatal_crashes, serious_crashes, fatal_serious_pct,
    all_crashes_filtered, fatal_serious_filtered,
    geo_final, baseline_data, road_final, light_final,
    heatmap_pivot, hour_severity, light_severity, age_severity

disk == <<readable, main_file>>

loaded == <<all_crashes_ts, fatal_serious_ts, main_data>>

widgets == <<year_range, severity_filter, urban_filter, road_filter, light_filter, age_filter>>

tables == <<filtered_data, total_all_data,
            total_crashes, fatal_crashes, serious_crashes, fatal_serious_pct,
            all_crashes_filtered, fatal_serious_filtered,
            geo_final, baseline_data, road_final, light_final,
            heatmap_pivot, hour_severity, light_severity, age_severity>>

vars == <<disk, cached, pc, error, rendered, loaded, widgets, tables>>

\* ------------------------------------------------------------------------
\* Bounds of the model
\* ------------------------------------------------------------------------

\* Largest number of rows of a small main table.
MaxRows == 2

\* A select box is set to one of its first MaxOpt options.
MaxOpt == 3

\* How many categories a wide main table has beyond the length of the
\* longest ranking cut (top 20 cities, top 10 conditions).
Extra == 1

\* ------------------------------------------------------------------------
\* Program constants
\* ------------------------------------------------------------------------

\* Categories with fewer total crashes are left out of a ranked table.
MinSample == 100

\* Length of the ranked city table.
TopCities == 20

\* Length of the ranked road-surface and light-condition tables.
TopFactors == 10

\* Number of light conditions kept in the severity comparison.
TopConditions == 10

severity_options == {"All", "Fatal", "Serious", "Other"}

day_order == [d \in 0..6 |->
    <<"Monday", "Tuesday", "Wednesday", "Thursday", "Friday", "Saturday", "Sunday">>[d + 1]]

age_order == <<"Under 16", "16-17", "18-20", "21-24", "25-34", "35-44", "45-54",
               "55-64", "65-74", "75-84", "85+", "Unknown">>

\* ------------------------------------------------------------------------
\* Column domains.  Each sequence lists the values of a column in the order
\* Python sorts them (string order for names, numeric order for numbers),
\* which is the order sorted() and groupby() produce.
\* ------------------------------------------------------------------------

UrbanValues == <<"Rural", "Urban">>

AgeValues == <<"16-17", "18-20", "21-24", "25-34", "35-44", "45-54",
               "55-64", "65-74", "75-84", "85+", "Under 16", "Unknown">>

CityValues == <<"Abington", "Acton", "Amherst", "Andover", "Barnstable", "Beverly",
                "Boston", "Brockton", "Cambridge", "Chelsea", "Dedham", "Everett",
                "Fall River", "Gardner", "Holyoke", "Lawrence", "Lowell", "Lynn",
                "Malden", "Newton", "Peabody", "Quincy", "Revere", "Salem",
                "Taunton", "Worcester">>

RoadValues == <<"Dry", "Ice", "Mud", "Oil", "Other", "Sand", "Slush", "Snow",
                "Unknown", "Water", "Wet", "Wet ice", "Wet sand", "Wet snow">>

LightValues == <<"Dark - lighted", "Dark - not lighted", "Dark - unknown", "Dawn",
                 "Daylight", "Dusk", "Fog", "Glare", "Not reported", "Other",
                 "Smoke", "Twilight", "Unknown", "Unlit tunnel">>

HourValues == [i \in 1..24 |-> i - 1]

DayValues == [i \in 1..7 |-> i - 1]

YearValues == <<2003, 2004, 2005>>

\* ------------------------------------------------------------------------
\* Helpers on sequences and rationals
\* ------------------------------------------------------------------------

Range(s) == {s[i] : i \in DOMAIN s}

Min(a, b) == IF a <= b THEN a ELSE b

\* Series.sum() of the crash_count column of a table.
RECURSIVE SumCount(_)
SumCount(df) ==
    IF df = <<>> THEN 0 ELSE Head(df).crash_count + SumCount(Tail(df))

\* df[col].unique() in sorted order: the values of `sorted` found in the column.
Present(df, col, sorted) ==
    SelectSeq(sorted, LAMBDA v : \E i \in DOMAIN df : df[i][col] = v)

\* The float a / b * 100; 0 / 0 is NaN.
Pct(a, b) == [num |-> a * 100, den |-> b]

IsNaN(x) == x.den = 0

RatGreater(x, y) == x.num * y.den > y.num * x.den

RatEqual(x, y) == x.num * y.den = y.num * x.den

\* ------------------------------------------------------------------------
\* Boolean indexing
\* ------------------------------------------------------------------------

\* df[(df['YEAR'] >= year_range[0]) & (df['YEAR'] <= year_range[1])]
YearMask(df, yr) ==
    SelectSeq(df, LAMBDA r : r.YEAR >= yr[1] /\ r.YEAR <= yr[2])

\* df[df[col] == v]
Where(df, col, v) == SelectSeq(df, LAMBDA r : r[col] = v)

\* df[df[col].isin(vs)]
WhereIn(df, col, vs) == SelectSeq(df, LAMBDA r : r[col] \in vs)

\* The select-box filter: 'All' leaves the table alone.
Narrow(df, col, choice) == IF choice # "All" THEN Where(df, col, choice) ELSE df

\* filtered_data without the age filter, as total_all_data is built.
FilteredDataNoAge(md, yr, sev, urban, road, light, age) ==
    LET byYear  == YearMask(md, yr)
        bySev   == IF "All" \notin sev /\ Cardinality(sev) > 0
                   THEN WhereIn(byYear, "SEVERITY_GROUP", sev)
                   ELSE byYear
        byUrban == Narrow(bySev, "URBAN_TYPE", urban)
        byRoad  == Narrow(byUrban, "ROAD_SURF_COND_DESCR", road)
    IN  Narrow(byRoad, "AMBNT_LIGHT_DESCR", light)

\* filtered_data: the year range, then each active filter in turn.
FilteredData(md, yr, sev, urban, road, light, age) ==
    LET byYear  == YearMask(md, yr)
        bySev   == IF "All" \notin sev /\ Cardinality(sev) > 0
                   THEN WhereIn(byYear, "SEVERITY_GROUP", sev)
                   ELSE byYear
        byUrban == Narrow(bySev, "URBAN_TYPE", urban)
        byRoad  == Narrow(byUrban, "ROAD_SURF_COND_DESCR", road)
        byLight == Narrow(byRoad, "AMBNT_LIGHT_DESCR", light)
    IN  Narrow(byLight, "AGE_DRVR_YNGST", age)

\* total_all_data: the year range and the urban, road and light filters.
TotalAllData(md, yr, urban, road, light) ==
    LET byYear  == YearMask(md, yr)
        byUrban == Narrow(byYear, "URBAN_TYPE", urban)
        byRoad  == Narrow(byUrban, "ROAD_SURF_COND_DESCR", road)
    IN  Narrow(byRoad, "AMBNT_LIGHT_DESCR", light)

\* baseline_data taken from the table the summary metrics are computed on.
BaselineDataOfTotalAllData(md, yr) == total_all_data'

\* baseline_data: the year range only.
BaselineData(md, yr) == YearMask(md, yr)

\* ------------------------------------------------------------------------
\* Summary metrics
\* ------------------------------------------------------------------------

\* The percentage without the guard on the total.
FatalSeriousPctUnguarded(fatal, serious, total) == Pct(fatal + serious, total)

\* (fatal + serious) / total * 100 if total > 0 else 0
FatalSeriousPct(fatal, serious, total) ==
    IF total > 0 THEN Pct(fatal + serious, total) ELSE [num |-> 0, den |-> 1]

\* ------------------------------------------------------------------------
\* Ranked rate tables
\* ------------------------------------------------------------------------

\* One cell of groupby([col, 'SEVERITY_GROUP'])['crash_count'].sum()
\* .unstack(fill_value=0): the sum of the pair's rows, 0 when it has none.
Cell(df, col, c, s) ==
    SumCount(SelectSeq(df, LAMBDA r : r[col] = c /\ r.SEVERITY_GROUP = s))

\* The fatal_serious_crashes column, by the columns the pivot has.
FatalSeriousCrashes(cols, counts) ==
    IF "Fatal" \in cols /\ "Serious" \in cols THEN counts["Fatal"] + counts["Serious"]
    ELSE IF "Fatal" \in cols THEN counts["Fatal"]
    ELSE IF "Serious" \in cols THEN counts["Serious"]
    ELSE 0

RECURSIVE SumOver(_, _)
SumOver(f, S) ==
    IF S = {} THEN 0
    ELSE LET x == CHOOSE y \in S : TRUE IN f[x] + SumOver(f, S \ {x})

\* The total_crashes column: DataFrame.sum(axis=1), taken when the frame
\* already holds the fatal_serious_crashes column beside the severity columns.
TotalCrashes(cols, counts, fsc) == SumOver(counts, cols) + fsc

\* One row of the summary frame.
SummaryRow(df, col, cols, c) ==
    LET counts == [s \in cols |-> Cell(df, col, c, s)]
        fsc    == FatalSeriousCrashes(cols, counts)
        total  == TotalCrashes(cols, counts, fsc)
    IN  [category              |-> c,
         counts                |-> counts,
         fatal_serious_crashes |-> fsc,
         total_crashes         |-> total,
         fatal_serious_rate    |-> Pct(fsc, total)]

\* The summary frame: one row per category of the column, in sorted order.
RateSummary(df, col, sorted) ==
    LET cats == Present(df, col, sorted)
        cols == {df[i].SEVERITY_GROUP : i \in DOMAIN df}
    IN  [k \in 1..Len(cats) |-> SummaryRow(df, col, cols, cats[k])]

\* summary[summary['total_crashes'] >= 100]
Eligible(summary) == SelectSeq(summary, LAMBDA r : r.total_crashes >= MinSample)

\* Where a row goes in a frame already in non-increasing order of rate:
\* behind every row whose rate is not smaller (keep='first').
InsertByRate(r, s) ==
    LET p == Cardinality({i \in DOMAIN s :
                 ~RatGreater(r.fatal_serious_rate, s[i].fatal_serious_rate)})
    IN  SubSeq(s, 1, p) \o <<r>> \o SubSeq(s, p + 1, Len(s))

RECURSIVE SortByRate(_, _)
SortByRate(rows, k) ==
    IF k = 0 THEN <<>> ELSE InsertByRate(rows[k], SortByRate(rows, k - 1))

\* DataFrame.head(n) in place of nlargest: the first n rows, unsorted.
NLargestUnsorted(rows, n) == SubSeq(rows, 1, Min(n, Len(rows)))

\* DataFrame.nlargest(n, 'fatal_serious_rate')
NLargest(rows, n) ==
    LET sorted == SortByRate(rows, Len(rows))
    IN  SubSeq(sorted, 1, Min(n, Len(sorted)))

\* The city table ranked over the whole main table.
GeoFinalOfMainData(tad) ==
    NLargest(Eligible(RateSummary(main_data, "CITY_TOWN_NAME", CityValues)), TopCities)

GeoFinal(tad) == NLargest(Eligible(RateSummary(tad, "CITY_TOWN_NAME", CityValues)), TopCities)

RoadFinal(bd) == NLargest(Eligible(RateSummary(bd, "ROAD_SURF_COND_DESCR", RoadValues)), TopFactors)

LightFinal(bd) == NLargest(Eligible(RateSummary(bd, "AMBNT_LIGHT_DESCR", LightValues)), TopFactors)

\* ------------------------------------------------------------------------
\* Hour by day-of-week heatmap
\* ------------------------------------------------------------------------

\* groupby(['HOUR', 'DAY_OF_WEEK']).sum(), pivot, fillna(0), and the columns
\* renamed to day names.  The index and the columns are the hours and the
\* days that occur in the data.
HeatmapPivot(fd) ==
    LET hours == Present(fd, "HOUR", HourValues)
        days  == Present(fd, "DAY_OF_WEEK", DayValues)
    IN  [index   |-> hours,
         columns |-> [k \in 1..Len(days) |-> day_order[days[k]]],
         values  |-> [h \in Range(hours), d \in Range(days) |->
                        SumCount(SelectSeq(fd, LAMBDA r : r.HOUR = h /\ r.DAY_OF_WEEK = d))]]

\* ------------------------------------------------------------------------
\* Fatal against Serious comparison tables
\* ------------------------------------------------------------------------

\* filtered_data[filtered_data['SEVERITY_GROUP'].isin(['Fatal', 'Serious'])]
FatalSeriousData(fd) == WhereIn(fd, "SEVERITY_GROUP", {"Fatal", "Serious"})

\* groupby([col, 'SEVERITY_GROUP'])['crash_count'].sum().reset_index():
\* one row per pair that occurs, sorted by the column and then the severity.
GroupSeverity(df, col, sorted) ==
    LET keys  == Present(df, col, sorted)
        pairs == [k \in 1..(2 * Len(keys)) |->
                    [key |-> keys[(k + 1) \div 2],
                     SEVERITY_GROUP |-> IF k % 2 = 1 THEN "Fatal" ELSE "Serious"]]
        seen  == SelectSeq(pairs, LAMBDA p : \E i \in DOMAIN df :
                    df[i][col] = p.key /\ df[i].SEVERITY_GROUP = p.SEVERITY_GROUP)
    IN  [k \in 1..Len(seen) |->
            [key            |-> seen[k].key,
             SEVERITY_GROUP |-> seen[k].SEVERITY_GROUP,
             crash_count    |-> Cell(df, col, seen[k].key, seen[k].SEVERITY_GROUP)]]

\* The percentage column taken over the total of both severities.
NormalizeOverall(grouped) ==
    [k \in DOMAIN grouped |->
        [key            |-> grouped[k].key,
         SEVERITY_GROUP |-> grouped[k].SEVERITY_GROUP,
         crash_count    |-> grouped[k].crash_count,
         percentage     |-> Pct(grouped[k].crash_count, SumCount(grouped))]]

\* The percentage column: each row's share of its severity's total.
Normalize(grouped) ==
    LET total(s) == SumCount(Where(grouped, "SEVERITY_GROUP", s))
    IN  [k \in DOMAIN grouped |->
            [key            |-> grouped[k].key,
             SEVERITY_GROUP |-> grouped[k].SEVERITY_GROUP,
             crash_count    |-> grouped[k].crash_count,
             percentage     |-> Pct(grouped[k].crash_count, total(grouped[k].SEVERITY_GROUP))]]

HourSeverity(fsd) == Normalize(GroupSeverity(fsd, "HOUR", HourValues))

\* groupby(key)['percentage'].sum() of one condition, NaN skipped, over the
\* common denominator of the two severities' totals.
ConditionScore(table, c) ==
    LET dF == SumCount(Where(table, "SEVERITY_GROUP", "Fatal"))
        dS == SumCount(Where(table, "SEVERITY_GROUP", "Serious"))
        cF == SumCount(SelectSeq(table, LAMBDA r : r.key = c /\ r.SEVERITY_GROUP = "Fatal"))
        cS == SumCount(SelectSeq(table, LAMBDA r : r.key = c /\ r.SEVERITY_GROUP = "Serious"))
    IN  cF * (IF dS = 0 THEN 1 ELSE dS) + cS * (IF dF = 0 THEN 1 ELSE dF)

RECURSIVE KSubsets(_, _)
KSubsets(S, k) ==
    IF k = 0 THEN {{}}
    ELSE IF S = {} THEN {}
    ELSE LET x == CHOOSE y \in S : TRUE
         IN  KSubsets(S \ {x}, k) \cup {T \cup {x} : T \in KSubsets(S \ {x}, k - 1)}

\* sort_values('percentage', ascending=False).head(10): the conditions kept.
\* The sort is not stable, so conditions with equal scores at the cut may
\* fall on either side of it.
TopConditionSets(table) ==
    LET conds == {table[i].key : i \in DOMAIN table}
        keep  == Min(TopConditions, Cardinality(conds))
    IN  {S \in KSubsets(conds, keep) :
            \A a \in S, b \in conds \ S : ConditionScore(table, a) >= ConditionScore(table, b)}

\* The light-condition comparison tables the run may end with.
LightSeverity(fsd) ==
    LET table == Normalize(GroupSeverity(fsd, "AMBNT_LIGHT_DESCR", LightValues))
    IN  {SelectSeq(table, LAMBDA r : r.key \in S) : S \in TopConditionSets(table)}

\* sort_values on the age column made an ordered categorical of age_order.
RECURSIVE SortByAge(_, _)
SortByAge(table, k) ==
    IF k = 0 THEN <<>>
    ELSE SortByAge(table, k - 1) \o Where(table, "key", age_order[k])

AgeSeverity(fsd) ==
    SortByAge(Normalize(GroupSeverity(fsd, "AGE_DRVR_YNGST", AgeValues)), Len(age_order))

\* ------------------------------------------------------------------------
\* The files on disk
\* ------------------------------------------------------------------------

Files == {"dashboard_data_all_crashes_ts.csv",
          "dashboard_data_fatal_serious_ts.csv",
          "dashboard_data_main.parquet"}

Row(y, h, d, s, u, r, l, a, c, n) ==
    [YEAR |-> y, HOUR |-> h, DAY_OF_WEEK |-> d, SEVERITY_GROUP |-> s,
     URBAN_TYPE |-> u, ROAD_SURF_COND_DESCR |-> r, AMBNT_LIGHT_DESCR |-> l,
     AGE_DRVR_YNGST |-> a, CITY_TOWN_NAME |-> c, crash_count |-> n]

\* The rows small main tables are made of: one reference row, and rows that
\* differ from it in one respect each.
RowPool ==
    << Row(2003,  0, 0, "Fatal",   "Rural", "Dry", "Daylight", "25-34", "Boston", 60),
       Row(2003,  0, 0, "Other",   "Rural", "Dry", "Daylight", "25-34", "Boston", 60),
       Row(2003,  0, 0, "Serious", "Rural", "Dry", "Daylight", "25-34", "Boston", 60),
       Row(2003,  0, 0, "Fatal",   "Rural", "Dry", "Daylight", "25-34", "Boston", 0),
       Row(2003, 23, 6, "Fatal",   "Rural", "Dry", "Daylight", "25-34", "Boston", 60),
       Row(2003,  0, 0, "Fatal",   "Urban", "Dry", "Daylight", "25-34", "Boston", 60),
       Row(2003,  0, 0, "Fatal",   "Rural", "Wet", "Daylight", "25-34", "Boston", 60),
       Row(2003,  0, 0, "Fatal",   "Rural", "Dry", "Dawn",     "25-34", "Boston", 60),
       Row(2003,  0, 0, "Fatal",   "Rural", "Dry", "Daylight", "16-17", "Boston", 60),
       Row(2003,  0, 0, "Fatal",   "Rural", "Dry", "Daylight", "25-34", "Lowell", 60),
       Row(2004,  0, 0, "Fatal",   "Rural", "Dry", "Daylight", "25-34", "Boston", 60),
       Row(2005,  0, 0, "Fatal",   "Rural", "Dry", "Daylight", "25-34", "Boston", 60) >>

\* The rows of the pool with their index in I, in the pool's order.
PoolTable(I) ==
    LET idx == SelectSeq([i \in 1..Len(RowPool) |-> i], LAMBDA i : i \in I)
    IN  [k \in 1..Len(idx) |-> RowPool[idx[k]]]

\* Small main tables: at most MaxRows rows of the pool.
SmallTables ==
    {PoolTable(I) : I \in {J \in SUBSET (1..Len(RowPool)) : Cardinality(J) <= MaxRows}}

\* A wide main table: more cities than the city ranking is long, and x more
\* road and light conditions than their rankings are long.  City i has one
\* Other row of 100 crashes and one Fatal or Serious row whose count depends
\* on the seed m.
WideRow(i, m, x, severe) ==
    Row(2003 + (i % 2), i % 24, i % 7,
        IF ~severe THEN "Other" ELSE IF i % 2 = 1 THEN "Fatal" ELSE "Serious",
        UrbanValues[(i % 2) + 1],
        RoadValues[((i - 1) % (TopFactors + x)) + 1],
        LightValues[((i - 1) % (TopConditions + x)) + 1],
        AgeValues[((i - 1) % Len(AgeValues)) + 1],
        CityValues[i],
        IF severe THEN 10 * (1 + ((i * m) % 7)) ELSE 100)

WideTable(m, x) ==
    [k \in 1..(2 * (TopCities + Extra)) |-> WideRow((k + 1) \div 2, m, x, k % 2 = 1)]

WideSeeds == {1, 2, 3}

WideTables == {WideTable(m, x) : m \in WideSeeds, x \in {0, Extra}}

\* The two yearly time-series files.
AllCrashesFile ==
    [k \in 1..Len(YearValues) |-> [YEAR |-> YearValues[k], crash_count |-> 1000 * k]]

FatalSeriousFile ==
    [k \in 1..(2 * Len(YearValues)) |->
        [YEAR           |-> YearValues[(k + 1) \div 2],
         SEVERITY_GROUP |-> IF k % 2 = 1 THEN "Fatal" ELSE "Serious",
         crash_count    |-> 10 * k]]

\* What a name holds before the script assigns it.
Unset == "unset"

Fresh ==
    /\ pc = "start"
    /\ error = ""
    /\ rendered = {}
    /\ all_crashes_ts = Unset
    /\ fatal_serious_ts = Unset
    /\ main_data = Unset
    /\ year_range = Unset
    /\ severity_filter = Unset
    /\ urban_filter = Unset
    /\ road_filter = Unset
    /\ light_filter = Unset
    /\ age_filter = Unset
    /\ filtered_data = Unset
    /\ total_all_data = Unset
    /\ total_crashes = Unset
    /\ fatal_crashes = Unset
    /\ serious_crashes = Unset
    /\ fatal_serious_pct = Unset
    /\ all_crashes_filtered = Unset
    /\ fatal_serious_filtered = Unset
    /\ geo_final = Unset
    /\ baseline_data = Unset
    /\ road_final = Unset
    /\ light_final = Unset
    /\ heatmap_pivot = Unset
    /\ hour_severity = Unset
    /\ light_severity = Unset
    /\ age_severity = Unset

InitWith(mains) ==
    /\ readable \in SUBSET Files
    /\ main_file \in mains
    /\ cached = FALSE
    /\ Fresh

Init == InitWith(WideTables \cup SmallTables)

\* ------------------------------------------------------------------------
\* The script
\* ------------------------------------------------------------------------

\* load_data() returns: from the cache, or by reading the three files.
LoadData ==
    /\ pc = "start"
    /\ cached \/ readable = Files
    /\ all_crashes_ts' = AllCrashesFile
    /\ fatal_serious_ts' = FatalSeriousFile
    /\ main_data' = main_file
    /\ cached' = TRUE
    /\ pc' = "loaded"
    /\ UNCHANGED <<disk, error, rendered, widgets, tables>>

\* The except branch without st.stop(): the script goes on past the error.
LoadErrorNoStop ==
    /\ pc = "start"
    /\ ~cached /\ readable # Files
    /\ error' = "Error loading data"
    /\ rendered' = {"title"}
    /\ pc' = "raised"
    /\ UNCHANGED <<disk, cached, loaded, widgets, tables>>

\* load_data() raises: st.error shows the message and st.stop ends the run.
LoadError ==
    /\ pc = "start"
    /\ ~cached /\ readable # Files
    /\ error' = "Error loading data"
    /\ pc' = "stopped"
    /\ UNCHANGED <<disk, cached, rendered, loaded, widgets, tables>>

\* The page title is drawn; int() of the minimum of an empty YEAR column
\* raises, and the run ends there.
SidebarRaises ==
    /\ pc = "loaded"
    /\ main_data = <<>>
    /\ rendered' = {"title"}
    /\ pc' = "raised"
    /\ UNCHANGED <<disk, cached, error, loaded, widgets, tables>>

\* ['All'] + sorted(main_data[col].dropna().unique().tolist())
Options(md, col, sorted) == <<"All">> \o Present(md, col, sorted)

Selectable(opts) == {opts[i] : i \in 1..Min(MaxOpt, Len(opts))}

\* The pairs the year slider can be set to.
YearRanges(md) ==
    LET years    == Present(md, "YEAR", YearValues)
        year_min == years[1]
        year_max == years[Len(years)]
    IN  {<<a, b>> : a \in year_min..year_max, b \in year_min..year_max} \cap
        {yr \in Int \X Int : yr[1] <= yr[2]}

Charts == {"title", "sidebar", "metrics", "fig", "fig_geo", "fig_road", "fig_light",
           "fig_heatmap", "fig_hour_comp", "fig_light_comp", "fig_age_comp", "footer"}

\* The rest of the script, from the title to the footer, for one setting of
\* the sidebar widgets.
Dashboard ==
    /\ pc = "loaded"
    /\ main_data # <<>>
    /\ \E yr    \in YearRanges(main_data),
          sev   \in SUBSET severity_options,
          urban \in Selectable(Options(main_data, "URBAN_TYPE", UrbanValues)),
          road  \in Selectable(Options(main_data, "ROAD_SURF_COND_DESCR", RoadValues)),
          light \in Selectable(Options(main_data, "AMBNT_LIGHT_DESCR", LightValues)),
          age   \in Selectable(Options(main_data, "AGE_DRVR_YNGST", AgeValues)) :
        LET fd  == FilteredData(main_data, yr, sev, urban, road, light, age)
            tad == TotalAllData(main_data, yr, urban, road, light)
            bd  == BaselineData(main_data, yr)
            fsd == FatalSeriousData(fd)
            total   == SumCount(tad)
            fatal   == SumCount(Where(tad, "SEVERITY_GROUP", "Fatal"))
            serious == SumCount(Where(tad, "SEVERITY_GROUP", "Serious"))
        IN  /\ year_range' = yr
            /\ severity_filter' = sev
            /\ urban_filter' = urban
            /\ road_filter' = road
            /\ light_filter' = light
            /\ age_filter' = age
            /\ filtered_data' = fd
            /\ total_all_data' = tad
            /\ total_crashes' = total
            /\ fatal_crashes' = fatal
            /\ serious_crashes' = serious
            /\ fatal_serious_pct' = FatalSeriousPct(fatal, serious, total)
            /\ all_crashes_filtered' = YearMask(all_crashes_ts, yr)
            /\ fatal_serious_filtered' = YearMask(fatal_serious_ts, yr)
            /\ geo_final' = GeoFinal(tad)
            /\ baseline_data' = bd
            /\ road_final' = RoadFinal(bd)
            /\ light_final' = LightFinal(bd)
            /\ heatmap_pivot' = HeatmapPivot(fd)
            /\ hour_severity' = HourSeverity(fsd)
            /\ light_severity' \in LightSeverity(fsd)
            /\ age_severity' = AgeSeverity(fsd)
    /\ rendered' = Charts
    /\ pc' = "done"
    /\ UNCHANGED <<disk, cached, error, loaded>>

\* A widget is touched or the page is reloaded: the script runs again from
\* the top, with nothing kept but the cache.
Rerun ==
    /\ pc \in {"done", "stopped", "raised"}
    /\ pc' = "start"
    /\ error' = ""
    /\ rendered' = {}
    /\ all_crashes_ts' = Unset
    /\ fatal_serious_ts' = Unset
    /\ main_data' = Unset
    /\ year_range' = Unset
    /\ severity_filter' = Unset
    /\ urban_filter' = Unset
    /\ road_filter' = Unset
    /\ light_filter' = Unset
    /\ age_filter' = Unset
    /\ filtered_data' = Unset
    /\ total_all_data' = Unset
    /\ total_crashes' = Unset
    /\ fatal_crashes' = Unset
    /\ serious_crashes' = Unset
    /\ fatal_serious_pct' = Unset
    /\ all_crashes_filtered' = Unset
    /\ fatal_serious_filtered' = Unset
    /\ geo_final' = Unset
    /\ baseline_data' = Unset
    /\ road_final' = Unset
    /\ light_final' = Unset
    /\ heatmap_pivot' = Unset
    /\ hour_severity' = Unset
    /\ light_severity' = Unset
    /\ age_severity' = Unset
    /\ UNCHANGED <<disk, cached>>

Next == LoadData \/ LoadError \/ SidebarRaises \/ Dashboard \/ Rerun

Spec == Init /\ [][Next]_vars

\* ------------------------------------------------------------------------
\* Properties
\* ------------------------------------------------------------------------

Done == pc = "done"

\* The three ranked rate tables of a finished run, each with the table it
\* was computed from, its category column and its length limit.
RankedTables ==
    << [table |-> geo_final,   input |-> total_all_data, col |-> "CITY_TOWN_NAME",
        values |-> CityValues, n |-> TopCities],
       [table |-> road_final,  input |-> baseline_data,  col |-> "ROAD_SURF_COND_DESCR",
        values |-> RoadValues, n |-> TopFactors],
       [table |-> light_final, input |-> baseline_data,  col |-> "AMBNT_LIGHT_DESCR",
        values |-> LightValues, n |-> TopFactors] >>

\* The crashes of category c in the input rows: all of them, and the Fatal
\* and Serious ones.
CategoryTotal(input, col, c) == SumCount(Where(input, col, c))

CategorySevere(input, col, c) ==
    SumCount(SelectSeq(input, LAMBDA r :
        r[col] = c /\ r.SEVERITY_GROUP \in {"Fatal", "Serious"}))

\* C1: in each ranked rate table, a row's total_crashes is the sum of
\* crash_count over the category's input rows, its fatal_serious_crashes the
\* sum over the category's Fatal and Serious rows, and its fatal_serious_rate
\* their quotient times 100.
C1_RateTableAggregates ==
    Done => \A t \in Range(RankedTables) : \A k \in DOMAIN t.table :
        LET row == t.table[k] IN
        /\ row.total_crashes = CategoryTotal(t.input, t.col, row.category)
        /\ row.fatal_serious_crashes = CategorySevere(t.input, t.col, row.category)
        /\ RatEqual(row.fatal_serious_rate,
                    Pct(CategorySevere(t.input, t.col, row.category),
                        CategoryTotal(t.input, t.col, row.category)))

\* C2: no ranked rate table holds a category whose input rows sum to fewer
\* than MinSample crashes.
C2_MinSampleRespected ==
    Done => \A t \in Range(RankedTables) : \A k \in DOMAIN t.table :
        CategoryTotal(t.input, t.col, t.table[k].category) >= MinSample

\* C3: the heatmap matrix has the 24 hours 0..23 as rows and the 7 days
\* Monday..Sunday as columns, and holds 0 where the filtered data has no row.
C3_HeatmapShape ==
    Done =>
        /\ heatmap_pivot.index = HourValues
        /\ heatmap_pivot.columns = [k \in 1..7 |-> day_order[k - 1]]
        /\ \A h \in 0..23, d \in 0..6 :
              (~\E i \in DOMAIN filtered_data :
                    filtered_data[i].HOUR = h /\ filtered_data[i].DAY_OF_WEEK = d)
              => heatmap_pivot.values[h, d] = 0

\* Whether a row of the main table passes every active filter of the sidebar.
Passes(r) ==
    /\ year_range[1] <= r.YEAR /\ r.YEAR <= year_range[2]
    /\ ("All" \in severity_filter \/ severity_filter = {}
            \/ r.SEVERITY_GROUP \in severity_filter)
    /\ (urban_filter = "All" \/ r.URBAN_TYPE = urban_filter)
    /\ (road_filter = "All" \/ r.ROAD_SURF_COND_DESCR = road_filter)
    /\ (light_filter = "All" \/ r.AMBNT_LIGHT_DESCR = light_filter)
    /\ (age_filter = "All" \/ r.AGE_DRVR_YNGST = age_filter)

\* Whether no filter of the sidebar restricts the main table.
NoRestriction ==
    /\ \A i \in DOMAIN main_data :
          year_range[1] <= main_data[i].YEAR /\ main_data[i].YEAR <= year_range[2]
    /\ ("All" \in severity_filter \/ severity_filter = {})
    /\ urban_filter = "All" /\ road_filter = "All"
    /\ light_filter = "All" /\ age_filter = "All"

\* C4: filtered_data holds exactly the rows of the main table that pass every
\* active filter, in the main table's order; with no filter active it is the
\* main table.
C4_FilteredRows ==
    Done =>
        /\ LET keep == {i \in DOMAIN main_data : Passes(main_data[i])}
           IN  /\ Len(filtered_data) = Cardinality(keep)
               /\ \A i \in keep :
                     filtered_data[Cardinality({j \in keep : j <= i})] = main_data[i]
        /\ NoRestriction => filtered_data = main_data

\* C4 witness: two filters are active at once and keep one row of two.
C4_Witness ==
    /\ Done
    /\ severity_filter = {"Fatal"} /\ urban_filter = "Urban"
    /\ Len(main_data) = 2 /\ Len(filtered_data) = 1
    /\ main_data[1].URBAN_TYPE = "Rural"

\* C5: total, fatal and serious are the sums of crash_count over the
\* summarised rows and over their Fatal and Serious rows; the percentage is
\* exactly 0 when the total is 0 and (fatal + serious) / total * 100, within
\* [0, 100], otherwise.
C5_SummaryMetrics ==
    Done =>
        /\ total_crashes = SumCount(total_all_data)
        /\ fatal_crashes =
              SumCount(SelectSeq(total_all_data, LAMBDA r : r.SEVERITY_GROUP = "Fatal"))
        /\ serious_crashes =
              SumCount(SelectSeq(total_all_data, LAMBDA r : r.SEVERITY_GROUP = "Serious"))
        /\ ~IsNaN(fatal_serious_pct)
        /\ total_crashes = 0 => fatal_serious_pct.num = 0
        /\ total_crashes # 0 =>
              /\ RatEqual(fatal_serious_pct,
                          [num |-> (fatal_crashes + serious_crashes) * 100,
                           den |-> total_crashes])
              /\ 0 <= fatal_serious_pct.num
              /\ fatal_serious_pct.num <= 100 * fatal_serious_pct.den

\* C5 witness: the filters match no crash of a table that has some, and the
\* percentage shown is 0.
C5_Witness ==
    /\ Done
    /\ SumCount(main_data) > 0
    /\ total_crashes = 0
    /\ fatal_serious_pct.num = 0

\* C6: when a file cannot be loaded the run shows the error and stops with
\* no widget, metric or chart produced; whatever is rendered was rendered in
\* a run that had all three tables loaded.
C6_AllOrNothing ==
    /\ readable # Files =>
          /\ pc \in {"start", "stopped"}
          /\ rendered = {}
          /\ year_range = Unset /\ total_crashes = Unset /\ geo_final = Unset
    /\ pc = "stopped" => error # ""
    /\ rendered # {} =>
          /\ readable = Files
          /\ all_crashes_ts = AllCrashesFile
          /\ fatal_serious_ts = FatalSeriousFile
          /\ main_data = main_file

\* C6 witness: a load failed and the run was stopped with the error shown.
C6_Witness ==
    /\ pc = "stopped"
    /\ "dashboard_data_main.parquet" \notin readable
    /\ error # ""
    /\ rendered = {}

\* The three severity comparison tables of a finished run.
ComparisonTables == <<hour_severity, light_severity, age_severity>>

\* Whether the percentages of severity s in a comparison table sum to 100.
\* The rows of one severity share their denominator; NaN adds nothing.
SharesSumTo100(table, s) ==
    LET rows == Where(table, "SEVERITY_GROUP", s)
        den  == rows[1].percentage.den
        RECURSIVE SumNum(_)
        SumNum(rs) == IF rs = <<>> THEN 0 ELSE Head(rs).percentage.num + SumNum(Tail(rs))
    IN  den # 0 /\ SumNum(rows) = 100 * den

HasRows(table, s) == \E k \in DOMAIN table : table[k].SEVERITY_GROUP = s

\* C7 as stated: in each severity comparison table, the percentages of each
\* severity that has a row sum to 100.
C7_SharesSumTo100 ==
    Done => \A k \in DOMAIN ComparisonTables : \A s \in {"Fatal", "Serious"} :
        HasRows(ComparisonTables[k], s) => SharesSumTo100(ComparisonTables[k], s)

\* The crashes of severity s in a comparison table.
SeverityCount(table, s) == SumCount(Where(table, "SEVERITY_GROUP", s))

\* The light conditions of the Fatal and Serious rows of filtered_data.
ComparedConditions ==
    {filtered_data[i].AMBNT_LIGHT_DESCR : i \in
        {j \in DOMAIN filtered_data : filtered_data[j].SEVERITY_GROUP \in {"Fatal", "Serious"}}}

\* C7 amended: the percentages of a severity sum to 100 in the hour and age
\* tables when the severity has a positive number of crashes there, and in
\* the light-condition table when moreover the compared rows have at most
\* TopConditions light conditions, so that none is cut from the table.
C7_SharesOfCountedSeverities ==
    Done => \A s \in {"Fatal", "Serious"} :
        /\ SeverityCount(hour_severity, s) > 0 => SharesSumTo100(hour_severity, s)
        /\ SeverityCount(age_severity, s) > 0 => SharesSumTo100(age_severity, s)
        /\ (SeverityCount(light_severity, s) > 0
                /\ Cardinality(ComparedConditions) <= TopConditions)
            => SharesSumTo100(light_severity, s)

\* C7 witness: both severities have crashes in several buckets of each table.
C7_Witness ==
    /\ Done
    /\ \A k \in DOMAIN ComparisonTables :
          /\ Len(ComparisonTables[k]) >= 4
          /\ SeverityCount(ComparisonTables[k], "Fatal") > 0
          /\ SeverityCount(ComparisonTables[k], "Serious") > 0
    /\ Cardinality(ComparedConditions) <= TopConditions

\* The rate of category c in the input rows exceeds that of category e.
TrueRateGreater(input, col, c, e) ==
    CategorySevere(input, col, c) * CategoryTotal(input, col, e)
        > CategorySevere(input, col, e) * CategoryTotal(input, col, c)

\* C8: a ranked rate table has at most N rows, in non-increasing order of
\* fatal_serious_rate, and no category that passes the sample threshold and
\* is left out has a greater rate than a category of the table.  The last
\* part is stated for the threshold and rate of the summary frame, and for
\* the totals and rates of the input rows.
C8_TopNRanking ==
    Done => \A t \in Range(RankedTables) :
        LET summary == RateSummary(t.input, t.col, t.values)
            inTable == {t.table[k].category : k \in DOMAIN t.table}
        IN  /\ Len(t.table) <= t.n
            /\ \A k \in 1..(Len(t.table) - 1) :
                  ~RatGreater(t.table[k + 1].fatal_serious_rate,
                              t.table[k].fatal_serious_rate)
            /\ \A j \in DOMAIN summary, k \in DOMAIN t.table :
                  (summary[j].total_crashes >= MinSample
                        /\ summary[j].category \notin inTable)
                  => ~RatGreater(summary[j].fatal_serious_rate,
                                 t.table[k].fatal_serious_rate)
            /\ \A j \in DOMAIN summary, k \in DOMAIN t.table :
                  (CategoryTotal(t.input, t.col, summary[j].category) >= MinSample
                        /\ summary[j].category \notin inTable)
                  => ~TrueRateGreater(t.input, t.col, summary[j].category,
                                      t.table[k].category)

\* C8 witness: more cities pass the threshold than the city table holds, and
\* the table is full with rates that differ.
C8_Witness ==
    /\ Done
    /\ Len(geo_final) = TopCities
    /\ Len(road_final) = TopFactors
    /\ Cardinality({total_all_data[i].CITY_TOWN_NAME : i \in DOMAIN total_all_data})
          > TopCities
    /\ RatGreater(geo_final[1].fatal_serious_rate, geo_final[TopCities].fatal_serious_rate)

\* C9: a run whose rate table computation is fed a table with no rows
\* finishes, and that rate table has no rows.
C9_EmptyInputEmptyTable ==
    Done => \A t \in Range(RankedTables) :
        t.input = <<>> => t.table = <<>>

\* C9 witness: the year range selects no row of a main table that has some.
C9_Witness ==
    /\ Done
    /\ main_data # <<>>
    /\ baseline_data = <<>> /\ total_all_data = <<>>
    /\ road_final = <<>> /\ geo_final = <<>>

\* The ranked rate table of a column of the rows of the main table within
\* the year range.
YearOnlyTable(col, values) ==
    LET rows == SelectSeq(main_data, LAMBDA r :
                    year_range[1] <= r.YEAR /\ r.YEAR <= year_range[2])
    IN  NLargest(Eligible(RateSummary(rows, col, values)), TopFactors)

\* C10: the road-surface and light-condition tables are those of the rows of
\* the main table within the year range, whatever the other filters are set
\* to: two runs that agree on the data and the year range agree on them.
C10_BaselineIndependence ==
    Done =>
        /\ road_final = YearOnlyTable("ROAD_SURF_COND_DESCR", RoadValues)
        /\ light_final = YearOnlyTable("AMBNT_LIGHT_DESCR", LightValues)

\* C10 witness: the other filters cut the filtered tables down and the two
\* risk tables still rank the unfiltered conditions.
C10_Witness ==
    /\ Done
    /\ road_filter # "All" /\ light_filter # "All"
    /\ total_all_data = <<>>
    /\ Len(road_final) >= 2 /\ Len(light_final) >= 2

====
